---- MODULE Spec2Model ----
(***************************************************************************)
(* A model of universal-trakt-scrobbler's history core:                    *)
(*   - ServiceApi.loadHistory      (src/src/apis/ServiceApi.ts, 108-155)   *)
(*   - ServiceApi.loadTraktHistory (src/src/apis/ServiceApi.ts, 37-94)     *)
(*   - ServiceApi.getTraktCacheId / getTraktCacheStr (96-106)              *)
(* Three specifications share the module: Spec (the page loop of           *)
(* loadHistory on one adapter instance), SpecTrakt (one loadTraktHistory   *)
(* batch with its concurrent per-item resolutions) and SpecCache (the two  *)
(* pure cache-key functions applied to bounded inputs).                    *)
(***************************************************************************)
EXTENDS Integers, Sequences, FiniteSets, TLC

(* ------------------------------ bounds -------------------------------- *)

\* Entries the service holds: raw history entries are 1..MaxEntry, the number
\* being the entry's timestamp (e5 is newer than e4); the id of entry e is <<e>>.
MaxEntry == 5

\* Longest page one loadHistoryItems call returns.
MaxPage == 3

\* Requested item counts are 1..MaxTarget, and 10 (the end-to-end scenario).
MaxTarget == 2

\* Watermark timestamps are 0 (never synced) and 1..MaxSync.
MaxSync == 3

\* Page fetches counted on the adapter (the spy's counter stops here).
MaxFetch == 3

\* Longest generated title handed to getTraktCacheStr.
MaxLen == 3

\* Items in one loadTraktHistory batch.
MaxItems == 3

\* BrowserStorage.set calls of the options page that may be pending at once.
MaxPending == 2

(* ------------------------------ helpers ------------------------------- *)

Min(a, b) == IF a < b THEN a ELSE b

\* <<hi, hi-1, ..., hi-k+1>>: k entries of a newest-first feed, from hi down.
Descending(hi, k) == [i \in 1..k |-> hi - i + 1]

VARIABLES
  \* --- ServiceApi instance (one adapter) ---
  leftoverHistoryItems,    \* line 28
  hasReachedHistoryEnd,    \* line 29
  cursor,                  \* the adapter's position in the service feed: entries cursor..1 are not served yet
  fetchCount,              \* calls of loadHistoryItems on this adapter
  \* --- the service's sync store ---
  store,                   \* store.data: [items, hasReachedEnd, hasReachedLastSyncDate]
  \* --- one loadHistory call ---
  pc,                      \* "idle" | "loop" | "filter" | "convert" | "catch" | "resolved" | "rejected"
  itemsToLoad, lastSync, lastSyncId,       \* parameters (line 108); itemsToLoad is decremented
  hasReachedEnd, hasReachedLastSyncDate,   \* locals (line 111)
  historyItems,            \* line 113
  responseItems,           \* line 115
  err,                     \* the error caught at line 146, NoError when none
  \* --- what the call did (observed by its caller and by the collaborators) ---
  run                      \* [targetCount, store, leftover, fetched, setData, reported, events, thrown]

VARIABLES
  \* --- the cache-key functions applied to one input ---
  title,                   \* the string handed to getTraktCacheStr
  cacheStr,                \* its result, Pending before the call
  item,                    \* the Item handed to getTraktCacheId
  other,                   \* the same content as supplied by another service
  cacheId,                 \* getTraktCacheId(item), Pending before the call
  otherCacheId             \* getTraktCacheId(other), Pending before the call

cacheVars == <<title, cacheStr, item, other, cacheId, otherCacheId>>

VARIABLES
  \* --- one loadTraktHistory batch ---
  items,                   \* the caller's Item[]: per item [trakt, pc, via, failed]
  storage,                 \* BrowserStorage: [corrections, traktCache]
  traktCache,              \* the mapping read at line 49, shared by the batch's items
  batchPc,                 \* "idle" | "resolving" | "done"
  batch                    \* what the batch met and did: [read, missing, noEntry, wrote,
                           \*   setCalls, reported, events, canceled]; canceled: a remote
                           \*   call of an item rejected with a canceled-kind error

traktVars == <<items, storage, traktCache, batchPc, batch>>

engineVars == <<leftoverHistoryItems, hasReachedHistoryEnd, cursor, fetchCount, store, pc,
                itemsToLoad, lastSync, lastSyncId, hasReachedEnd, hasReachedLastSyncDate,
                historyItems, responseItems, err, run>>

(* ------------------------- the adapter contract ------------------------ *)

Entries == 1..MaxEntry

TargetCounts == (1..MaxTarget) \cup {10}

NoId == <<>>

\* The (lastSync, lastSyncId) pairs callers pass: nothing synced yet, a timestamp
\* without an id, an id without a timestamp, and the timestamp and id of the
\* entry last synced.
Watermarks == {<<0, NoId>>, <<1, NoId>>, <<0, <<1>>>>} \cup {<<t, <<t>>>> : t \in 1..MaxSync}

NoError == [name |-> "none", canceled |-> FALSE]

\* What a rejected adapter call carries: err.canceled is RequestException.canceled.
FetchErrors == { [name |-> "abort", canceled |-> TRUE],
                 [name |-> "network", canceled |-> FALSE] }

\* An adapter's isNewHistoryItem: the entry is strictly newer than the watermark.
isNewHistoryItem(historyItem, sync, syncId) == historyItem > sync

\* An adapter's convertHistoryItems: one Item per raw entry, in order.
convertHistoryItems(h) == [i \in 1..Len(h) |-> [id |-> <<h[i]>>, entry |-> h[i]]]

(* ----------------------------- loadHistory ----------------------------- *)

\* Lines 124-133: the index of the first entry of the page that is not new,
\* Len + 1 when every entry is new.
FirstRejected(resp, sync, syncId) ==
  IF \E i \in 1..Len(resp) : ~isNewHistoryItem(resp[i], sync, syncId)
  THEN CHOOSE i \in 1..Len(resp) :
         /\ ~isNewHistoryItem(resp[i], sync, syncId)
         /\ \A j \in 1..(i - 1) : isNewHistoryItem(resp[j], sync, syncId)
  ELSE Len(resp) + 1

\* Line 124: the watermark is set.
HasWatermark(sync, syncId) == sync > 0 /\ syncId # NoId

\* A scan that takes the rejected entry before it stops.
filteredItemsThroughRejected(resp, sync, syncId) ==
  IF HasWatermark(sync, syncId)
  THEN SubSeq(resp, 1, Min(FirstRejected(resp, sync, syncId), Len(resp)))
  ELSE resp

\* Lines 123-136: filteredItems.
filteredItems(resp, sync, syncId) ==
  IF HasWatermark(sync, syncId)
  THEN SubSeq(resp, 1, FirstRejected(resp, sync, syncId) - 1)
  ELSE resp

\* A scan that buffers the page after the rejected entry, dropping that entry.
LeftoverAfterScanSkippingRejected(resp, sync, syncId, old) ==
  IF HasWatermark(sync, syncId) /\ FirstRejected(resp, sync, syncId) <= Len(resp)
  THEN SubSeq(resp, FirstRejected(resp, sync, syncId) + 1, Len(resp))
  ELSE old

\* Line 129: what the scan leaves in this.leftoverHistoryItems.
LeftoverAfterScan(resp, sync, syncId, old) ==
  IF HasWatermark(sync, syncId) /\ FirstRejected(resp, sync, syncId) <= Len(resp)
  THEN SubSeq(resp, FirstRejected(resp, sync, syncId), Len(resp))
  ELSE old

\* A scan that forgets to mark the watermark as reached.
ReachedLastSyncDateNeverSet(resp, sync, syncId, old) == old

\* Line 130.
ReachedLastSyncDateAfterScan(resp, sync, syncId, old) ==
  IF HasWatermark(sync, syncId) /\ FirstRejected(resp, sync, syncId) <= Len(resp)
  THEN TRUE
  ELSE old

ClearStore == [items |-> <<>>, hasReachedEnd |-> FALSE, hasReachedLastSyncDate |-> FALSE]

NoRun == [targetCount |-> 0, store |-> ClearStore, leftover |-> <<>>, fetched |-> <<>>,
          setData |-> 0, reported |-> 0, events |-> <<>>, thrown |-> NoError]

EngineInit ==
  /\ leftoverHistoryItems = <<>>
  /\ hasReachedHistoryEnd = FALSE
  /\ cursor \in 0..MaxEntry
  /\ fetchCount = 0
  /\ store = ClearStore
  /\ pc = "idle"
  /\ itemsToLoad = 0
  /\ lastSync = 0
  /\ lastSyncId = NoId
  /\ hasReachedEnd = FALSE
  /\ hasReachedLastSyncDate = FALSE
  /\ historyItems = <<>>
  /\ responseItems = <<>>
  /\ err = NoError
  /\ run = NoRun

\* Lines 108-113: a caller invokes loadHistory(n, sync, syncId).
Call(n, sync, syncId) ==
  /\ pc \in {"idle", "resolved", "rejected"}
  /\ pc' = "loop"
  /\ itemsToLoad' = n
  /\ lastSync' = sync
  /\ lastSyncId' = syncId
  /\ hasReachedEnd' = store.hasReachedEnd
  /\ hasReachedLastSyncDate' = store.hasReachedLastSyncDate
  /\ historyItems' = <<>>
  /\ responseItems' = <<>>
  /\ err' = NoError
  /\ run' = [NoRun EXCEPT !.targetCount = n, !.store = store,
                          !.leftover = leftoverHistoryItems]
  /\ UNCHANGED <<leftoverHistoryItems, hasReachedHistoryEnd, cursor, fetchCount, store>>

\* A leftover test that misses a buffer of one entry.
HasLeftoverOffByOne(buffer) == Len(buffer) > 1

\* Line 116: this.leftoverHistoryItems.length > 0.
HasLeftover(buffer) == Len(buffer) > 0

\* A sourcing that hands the buffer over without emptying it.
SourceLeftoverKeepsBuffer ==
  /\ pc = "loop"
  /\ HasLeftover(leftoverHistoryItems)
  /\ responseItems' = leftoverHistoryItems
  /\ pc' = "filter"
  /\ UNCHANGED <<leftoverHistoryItems, hasReachedHistoryEnd, cursor, fetchCount, store,
                 itemsToLoad, lastSync, lastSyncId, hasReachedEnd, hasReachedLastSyncDate,
                 historyItems, err, run>>

\* Lines 115-118: the page is the leftover buffer.
SourceLeftover ==
  /\ pc = "loop"
  /\ HasLeftover(leftoverHistoryItems)
  /\ responseItems' = leftoverHistoryItems
  /\ leftoverHistoryItems' = <<>>
  /\ pc' = "filter"
  /\ UNCHANGED <<hasReachedHistoryEnd, cursor, fetchCount, store, itemsToLoad, lastSync,
                 lastSyncId, hasReachedEnd, hasReachedLastSyncDate, historyItems, err, run>>

\* Lines 119-120, the adapter answering with a page of k entries; it may set
\* hasReachedHistoryEnd once the service has nothing further.
FetchPage(k, end) ==
  /\ pc = "loop"
  /\ ~HasLeftover(leftoverHistoryItems)
  /\ ~hasReachedHistoryEnd
  /\ fetchCount < MaxFetch
  /\ k <= Min(MaxPage, cursor)
  /\ end => (cursor - k = 0)
  /\ responseItems' = Descending(cursor, k)
  /\ cursor' = cursor - k
  /\ hasReachedHistoryEnd' = end
  /\ fetchCount' = fetchCount + 1
  /\ run' = [run EXCEPT !.fetched = Append(@, Descending(cursor, k))]
  /\ pc' = "filter"
  /\ UNCHANGED <<leftoverHistoryItems, store, itemsToLoad, lastSync, lastSyncId,
                 hasReachedEnd, hasReachedLastSyncDate, historyItems, err>>

\* Lines 119-120 and 162-164: the base class's loadHistoryItems, which resolves
\* with an empty page and never sets hasReachedHistoryEnd. The spy counts its
\* calls and records its pages up to MaxFetch.
DefaultLoadHistoryItems ==
  /\ pc = "loop"
  /\ ~HasLeftover(leftoverHistoryItems)
  /\ ~hasReachedHistoryEnd
  /\ responseItems' = <<>>
  /\ fetchCount' = Min(fetchCount + 1, MaxFetch)
  /\ run' = [run EXCEPT !.fetched = IF Len(@) < MaxFetch THEN Append(@, <<>>) ELSE @]
  /\ pc' = "filter"
  /\ UNCHANGED <<leftoverHistoryItems, hasReachedHistoryEnd, cursor, store, itemsToLoad,
                 lastSync, lastSyncId, hasReachedEnd, hasReachedLastSyncDate, historyItems,
                 err>>

\* Lines 119-120, the adapter's promise rejecting with e.
FetchFail(e) ==
  /\ pc = "loop"
  /\ ~HasLeftover(leftoverHistoryItems)
  /\ ~hasReachedHistoryEnd
  /\ fetchCount < MaxFetch
  /\ fetchCount' = fetchCount + 1
  /\ err' = e
  /\ pc' = "catch"
  /\ UNCHANGED <<leftoverHistoryItems, hasReachedHistoryEnd, cursor, store, itemsToLoad,
                 lastSync, lastSyncId, hasReachedEnd, hasReachedLastSyncDate, historyItems,
                 responseItems, run>>

\* Lines 115-121 with nothing buffered and the adapter at its end: an empty page.
SourceNothing ==
  /\ pc = "loop"
  /\ ~HasLeftover(leftoverHistoryItems)
  /\ hasReachedHistoryEnd
  /\ responseItems' = <<>>
  /\ pc' = "filter"
  /\ UNCHANGED <<leftoverHistoryItems, hasReachedHistoryEnd, cursor, fetchCount, store,
                 itemsToLoad, lastSync, lastSyncId, hasReachedEnd, hasReachedLastSyncDate,
                 historyItems, err, run>>

\* An accumulation that stops at the requested count.
PushFilteredUpToCount(history, filtered, remaining) ==
  history \o SubSeq(filtered, 1, Min(Len(filtered), remaining))

\* Lines 137-138: the whole of filteredItems is pushed, whatever is still asked for.
PushFiltered(history, filtered, remaining) == history \o filtered

\* An end flag that forgets the watermark.
ReachedEndWithoutDate(adapterEnd, reachedDate) == adapterEnd

\* Line 140: hasReachedEnd.
ReachedEnd(adapterEnd, reachedDate) == adapterEnd \/ reachedDate

\* A loop test that asks for one page more when the count is exactly met.
LoopAgainOffByOne(reachedEnd, remaining) == ~reachedEnd /\ remaining >= 0

\* Line 141: the loop goes on.
LoopAgain(reachedEnd, remaining) == ~reachedEnd /\ remaining > 0

\* Lines 122-141: scan the page, account for it, recompute hasReachedEnd, test the loop.
FilterPage ==
  /\ pc = "filter"
  /\ LET accepted == IF Len(responseItems) > 0
                     THEN filteredItems(responseItems, lastSync, lastSyncId)
                     ELSE <<>>
         reachedDate == IF Len(responseItems) > 0
                        THEN ReachedLastSyncDateAfterScan(responseItems, lastSync, lastSyncId,
                                                          hasReachedLastSyncDate)
                        ELSE hasReachedLastSyncDate
         reachedEnd == ReachedEnd(hasReachedHistoryEnd, reachedDate)
         remaining == itemsToLoad - Len(accepted)
     IN /\ leftoverHistoryItems' = IF Len(responseItems) > 0
                                   THEN LeftoverAfterScan(responseItems, lastSync, lastSyncId,
                                                          leftoverHistoryItems)
                                   ELSE leftoverHistoryItems
        /\ hasReachedLastSyncDate' = reachedDate
        /\ itemsToLoad' = remaining
        /\ historyItems' = PushFiltered(historyItems, accepted, itemsToLoad)
        /\ hasReachedEnd' = reachedEnd
        /\ pc' = IF LoopAgain(reachedEnd, remaining) THEN "loop" ELSE "convert"
  /\ UNCHANGED <<hasReachedHistoryEnd, cursor, fetchCount, store, lastSync, lastSyncId,
                 responseItems, err, run>>

\* Line 145: store.setData.
setData(data) ==
  /\ store' = data
  /\ run' = [run EXCEPT !.setData = @ + 1]

\* Lines 142-145: convert what was accumulated (when there is any) and write the store.
ConvertAndStore ==
  /\ pc = "convert"
  /\ setData([items |-> IF Len(historyItems) > 0
                        THEN convertHistoryItems(historyItems)
                        ELSE <<>>,
              hasReachedEnd |-> hasReachedEnd,
              hasReachedLastSyncDate |-> hasReachedLastSyncDate])
  /\ pc' = "resolved"
  /\ UNCHANGED <<leftoverHistoryItems, hasReachedHistoryEnd, cursor, fetchCount, itemsToLoad,
                 lastSync, lastSyncId, hasReachedEnd, hasReachedLastSyncDate, historyItems,
                 responseItems, err>>

\* Lines 142-143, convertHistoryItems rejecting with e.
ConvertFail(e) ==
  /\ pc = "convert"
  /\ Len(historyItems) > 0
  /\ err' = e
  /\ pc' = "catch"
  /\ UNCHANGED <<leftoverHistoryItems, hasReachedHistoryEnd, cursor, fetchCount, store,
                 itemsToLoad, lastSync, lastSyncId, hasReachedEnd, hasReachedLastSyncDate,
                 historyItems, responseItems, run>>

\* A handler that reports every error, canceled or not.
IsReportedAlways(e) == TRUE

\* A handler with the test inverted.
IsReportedInverted(e) == e.canceled

\* Line 147: the error is reported and dispatched.
IsReported(e) == ~e.canceled

\* Lines 146-154: report unless canceled, then rethrow.
Catch ==
  /\ pc = "catch"
  /\ run' = [run EXCEPT !.reported = IF IsReported(err) THEN @ + 1 ELSE @,
                        !.events = IF IsReported(err)
                                   THEN Append(@, [type |-> "SERVICE_HISTORY_LOAD_ERROR",
                                                   error |-> err])
                                   ELSE @,
                        !.thrown = err]
  /\ pc' = "rejected"
  /\ UNCHANGED <<leftoverHistoryItems, hasReachedHistoryEnd, cursor, fetchCount, store,
                 itemsToLoad, lastSync, lastSyncId, hasReachedEnd, hasReachedLastSyncDate,
                 historyItems, responseItems, err>>

EngineNext ==
  \/ \E n \in TargetCounts, w \in Watermarks : Call(n, w[1], w[2])
  \/ SourceLeftover
  \/ \E k \in 0..MaxPage, end \in BOOLEAN : FetchPage(k, end)
  \/ \E e \in FetchErrors : FetchFail(e)
  \/ SourceNothing
  \/ FilterPage
  \/ ConvertAndStore
  \/ \E e \in FetchErrors : ConvertFail(e)
  \/ Catch

(* ------------------- getTraktCacheStr, getTraktCacheId ------------------ *)

\* Strings are sequences of one-character strings.
UpperChars == {"A", "B", "C", "P", "T", "U", "W"}

LowerChars == {"a", "b", "c", "e", "h", "i", "l", "o", "p", "r", "t", "u", "w"}

DigitChars == {"0", "1", "2", "3", "4", "5", "6", "7", "8", "9"}

\* String.prototype.toLowerCase on one character.
LowerChar(c) ==
  CASE c = "A" -> "a" [] c = "B" -> "b" [] c = "C" -> "c" [] c = "P" -> "p"
    [] c = "T" -> "t" [] c = "U" -> "u" [] c = "W" -> "w" [] OTHER -> c

\* The regular expression class \w: [A-Za-z0-9_].
IsWordChar(c) == c \in UpperChars \cup LowerChars \cup DigitChars \cup {"_"}

toLowerCase(s) == [i \in 1..Len(s) |-> LowerChar(s[i])]

\* replace(/[^\w]/g, '-'): every character that is not a word character becomes '-'.
ReplaceNonWord(s) == [i \in 1..Len(s) |-> IF IsWordChar(s[i]) THEN s[i] ELSE "-"]

\* replace(/-+/g, '-'): every run of '-' becomes one '-'.
RECURSIVE CollapseDashes(_)
CollapseDashes(s) ==
  IF Len(s) <= 1 THEN s
  ELSE IF s[1] = "-" /\ s[2] = "-" THEN CollapseDashes(Tail(s))
  ELSE <<s[1]>> \o CollapseDashes(Tail(s))

\* A slug that lowercases and replaces, and leaves runs of '-' as they are.
getTraktCacheStrNoCollapse(t) == ReplaceNonWord(toLowerCase(t))

\* Lines 104-106.
getTraktCacheStr(t) == CollapseDashes(ReplaceNonWord(toLowerCase(t)))

\* An optional field: <<>> is undefined, <<v>> is the value v.
None == <<>>

Some(v) == <<v>>

\* Template-literal interpolation of a non-negative integer: its decimal digits.
RECURSIVE NumberToString(_)
NumberToString(n) ==
  LET digit == <<"0", "1", "2", "3", "4", "5", "6", "7", "8", "9">>[(n % 10) + 1]
  IN IF n < 10 THEN <<digit>> ELSE NumberToString(n \div 10) \o <<digit>>

ShowsPrefix == <<"/", "s", "h", "o", "w", "s", "/">>

SeasonsInfix == <<"/", "s", "e", "a", "s", "o", "n", "s", "/">>

EpisodesInfix == <<"/", "e", "p", "i", "s", "o", "d", "e", "s", "/">>

MoviesPrefix == <<"/", "m", "o", "v", "i", "e", "s", "/">>

\* A year suffix appended whenever the year is defined, 0 included.
YearSuffixWhenDefined(year) ==
  IF year # None THEN <<"-">> \o NumberToString(year[1]) ELSE <<>>

\* Line 101: item.year ? `-${item.year}` : '' (undefined and 0 are falsy).
YearSuffix(year) ==
  IF year # None /\ year[1] # 0 THEN <<"-">> \o NumberToString(year[1]) ELSE <<>>

\* Lines 96-102.
getTraktCacheId(it) ==
  IF it.type = "show"
  THEN ShowsPrefix \o getTraktCacheStr(it.title)
       \o SeasonsInfix
       \o (IF it.season # None THEN NumberToString(it.season[1]) ELSE <<"0">>)
       \o EpisodesInfix
       \o (IF it.episode # None
           THEN NumberToString(it.episode[1])
           ELSE getTraktCacheStr(IF it.episodeTitle # None THEN it.episodeTitle[1] ELSE <<"0">>))
  ELSE MoviesPrefix \o getTraktCacheStr(it.title) \o YearSuffix(it.year)

TheWire == <<"T", "h", "e", " ", "W", "i", "r", "e", "!", "!">>

ABC == <<"A", " ", " ", "B", "_", "C">>

Up == <<"U", "p">>

Pilot == <<"P", "i", "l", "o", "t", "!">>

\* Characters of the generated titles: a capital, a small letter, a digit, the
\* underscore, the hyphen, a space and a punctuation mark.
TitleChars == {"A", "b", "1", "_", "-", " ", "!"}

Titles == UNION { [1..k -> TitleChars] : k \in 0..MaxLen } \cup {TheWire, ABC}

Pending == <<"pending">>

\* Items: every combination of the fields getTraktCacheId reads.
Items ==
  [ type : {"show", "movie"},
    title : {TheWire, ABC, Up},
    year : {None, Some(0), Some(1999)},
    season : {None, Some(0), Some(2)},
    episode : {None, Some(0), Some(13)},
    episodeTitle : {None, Some(Pilot)},
    serviceId : {"netflix"},
    databaseId : {1} ]

\* The same logical content as another service supplies it.
FromOtherService(it) == [it EXCEPT !.serviceId = "hbo", !.databaseId = 2]

NoItem == [type |-> "movie", title |-> <<>>, year |-> None, season |-> None,
           episode |-> None, episodeTitle |-> None, serviceId |-> "netflix",
           databaseId |-> 1]

CacheParked ==
  /\ title = <<>>
  /\ cacheStr = Pending
  /\ item = NoItem
  /\ other = NoItem
  /\ cacheId = Pending
  /\ otherCacheId = Pending

\* Either a title for getTraktCacheStr or an item for getTraktCacheId.
CacheInit ==
  /\ cacheStr = Pending
  /\ cacheId = Pending
  /\ otherCacheId = Pending
  /\ \/ title \in Titles /\ item = NoItem /\ other = NoItem
     \/ title = <<>> /\ item \in Items /\ other = FromOtherService(item)

\* A call of getTraktCacheStr(title).
CallGetTraktCacheStr ==
  /\ cacheStr = Pending
  /\ item = NoItem
  /\ cacheStr' = getTraktCacheStr(title)
  /\ UNCHANGED <<title, item, other, cacheId, otherCacheId>>

\* Calls of getTraktCacheId on the item and on its cross-service twin.
CallGetTraktCacheId ==
  /\ cacheId = Pending
  /\ item # NoItem
  /\ cacheId' = getTraktCacheId(item)
  /\ otherCacheId' = getTraktCacheId(other)
  /\ UNCHANGED <<title, cacheStr, item, other>>

CacheNext ==
  \/ CallGetTraktCacheStr
  \/ CallGetTraktCacheId

(* --------------------------- loadTraktHistory -------------------------- *)

ItemIds == 1..MaxItems

\* The batch: odd items are one movie and even items one episode, each supplied
\* by a service of its own (item i has database id i), so that items of the same
\* parity share a cache key.
BatchItem(i) ==
  IF i % 2 = 1
  THEN [type |-> "movie", title |-> Up, year |-> Some(2009), season |-> None,
        episode |-> None, episodeTitle |-> None, serviceId |-> "netflix", databaseId |-> i]
  ELSE [type |-> "show", title |-> TheWire, year |-> Some(0), season |-> Some(1),
        episode |-> None, episodeTitle |-> Some(Pilot), serviceId |-> "hbo", databaseId |-> i]

\* Line 55: item.getDatabaseId().
getDatabaseId(i) == BatchItem(i).databaseId

\* Line 77, for each item of the batch: its cache key.
cacheIdOf == [i \in ItemIds |-> getTraktCacheId(BatchItem(i))]

CacheKeys == { cacheIdOf[i] : i \in ItemIds }

\* A live catalog entry (TraktItem) and its saved form (SavedTraktItem).
LiveItem(id, watchedAt) == [form |-> "live", id |-> id, watchedAt |-> watchedAt]

\* TraktItem.save: the identity and watchedAt, in the saved form.
TraktItemSave(live) == [form |-> "saved", id |-> live.id, watchedAt |-> live.watchedAt]

\* TraktItem.load: the live form of a saved entry.
TraktItemLoad(saved) == [form |-> "live", id |-> saved.id, watchedAt |-> saved.watchedAt]

\* TraktSearch.find(item, correction): the corrected identity when a correction
\* is given, the search result otherwise; watchedAt is not known yet.
TraktSearchFind(i, correction) ==
  LiveItem(IF correction # None THEN correction[1].traktId ELSE 10 + (i % 2), None)

\* The suggestion stored for database id d.
Suggestion(d) == [traktId |-> 100 + d]

\* The entry a warm cache holds under the key of item i.
CachedItem(i) == [form |-> "saved", id |-> 20 + (i % 2), watchedAt |-> Some(7)]

\* What TraktSync.loadHistory sets on the item's catalog entry.
WatchedAtOf(i) == Some(40 + i)

\* Lines 38-42: the item is missing a catalog entry or its watchedAt.
IsMissing(trakt) == trakt = None \/ trakt[1].watchedAt = None

\* A resolution that looks into the cache first.
UsesFindCacheFirst(correction, cacheItem) == cacheItem = None

\* Line 81: correction || !cacheItem.
UsesFind(correction, cacheItem) == correction # None \/ cacheItem = None

NoFailure == "none"

\* Lines 76-86 up to the first await, for an item of the batch: where the item
\* stands, given the mapping read and its correction.
StartItem(it, i, cache, correction) ==
  IF ~IsMissing(it.trakt) THEN [it EXCEPT !.pc = "skipped"]
  ELSE IF it.trakt # None THEN [it EXCEPT !.pc = "loading"]
  ELSE LET cacheItem == cache[cacheIdOf[i]]
       IN IF UsesFind(correction, cacheItem)
          THEN [it EXCEPT !.pc = "finding", !.via = [by |-> "find", correction |-> correction]]
          ELSE LET loaded == TraktItemLoad(cacheItem[1])
               IN [it EXCEPT !.trakt = Some(loaded),
                             !.via = [by |-> "cache", correction |-> None],
                             !.pc = IF loaded.watchedAt = None THEN "loading" ELSE "settled"]

NoVia == [by |-> "none", correction |-> None]

InitialTrakts == {None, Some(LiveItem(30, None)), Some(LiveItem(30, Some(5)))}

NoBatch == [read |-> [k \in CacheKeys |-> None], missing |-> {}, noEntry |-> {},
            wrote |-> {}, setCalls |-> 0, reported |-> 0, events |-> <<>>, canceled |-> FALSE]

TraktInit ==
  /\ items \in [ItemIds -> [trakt : InitialTrakts, pc : {"idle"}, via : {NoVia},
                            failed : {NoFailure}]]
  /\ \E corrected \in SUBSET ItemIds, cached \in SUBSET CacheKeys :
       storage = [corrections |-> [d \in ItemIds |-> IF d \in corrected
                                                     THEN Some(Suggestion(d)) ELSE None],
                  traktCache |-> [k \in CacheKeys |->
                                    IF k \in cached
                                    THEN Some(CachedItem(CHOOSE i \in ItemIds : cacheIdOf[i] = k))
                                    ELSE None]]
  /\ traktCache = [k \in CacheKeys |-> None]
  /\ batchPc = "idle"
  /\ batch = NoBatch

TraktParked ==
  /\ items = [i \in ItemIds |-> [trakt |-> None, pc |-> "idle", via |-> NoVia,
                                 failed |-> NoFailure]]
  /\ storage = [corrections |-> [d \in ItemIds |-> None],
                traktCache |-> [k \in CacheKeys |-> None]]
  /\ traktCache = [k \in CacheKeys |-> None]
  /\ batchPc = "idle"
  /\ batch = NoBatch

MissingItems == { i \in ItemIds : IsMissing(items[i].trakt) }

\* Lines 43-45: nothing is missing.
ReturnEmpty ==
  /\ batchPc = "idle"
  /\ MissingItems = {}
  /\ batchPc' = "done"
  /\ UNCHANGED <<items, storage, traktCache, batch>>

\* Line 62: the batch's handler reports the error.
IsTraktReported(e) == ~e.canceled

\* Lines 61-68: the batch's catch.
BatchCatch(b, e) ==
  [b EXCEPT !.reported = IF IsTraktReported(e) THEN @ + 1 ELSE @,
            !.events = IF IsTraktReported(e)
                       THEN Append(@, [type |-> "TRAKT_HISTORY_LOAD_ERROR", error |-> e])
                       ELSE @]

\* Line 47 rejecting with e.
GetFail(e) ==
  /\ batchPc = "idle"
  /\ MissingItems # {}
  /\ batch' = BatchCatch(batch, e)
  /\ batchPc' = "done"
  /\ UNCHANGED <<items, storage, traktCache>>

\* Lines 47-58: read the storage once, then start every missing item's
\* resolution; each runs up to its first await.
StartBatch ==
  /\ batchPc = "idle"
  /\ MissingItems # {}
  /\ traktCache' = storage.traktCache
  /\ batch' = [batch EXCEPT !.read = storage.traktCache,
                            !.missing = MissingItems,
                            !.noEntry = { i \in ItemIds : items[i].trakt = None }]
  /\ items' = [i \in ItemIds |->
                 StartItem(items[i], i, storage.traktCache,
                           storage.corrections[getDatabaseId(i)])]
  /\ batchPc' = "resolving"
  /\ UNCHANGED storage

\* Lines 82, 85-86: TraktSearch.find resolves; the entry has no watchedAt, so the
\* watched-history fetch is started.
FindOk(i) ==
  /\ batchPc = "resolving"
  /\ items[i].pc = "finding"
  /\ LET found == TraktSearchFind(i, items[i].via.correction)
     IN items' = [items EXCEPT ![i].trakt = Some(found),
                               ![i].pc = IF found.watchedAt = None THEN "loading" ELSE "settled"]
  /\ UNCHANGED <<storage, traktCache, batchPc, batch>>

\* A catch that leaves a watchedAt set before the failure in place.
ItemCatchKeepsWatchedAt(it, kind) == [it EXCEPT !.failed = kind, !.pc = "settled"]

\* Lines 89-93: the item's catch.
ItemCatch(it, kind) ==
  [it EXCEPT !.trakt = IF @ # None THEN Some([@[1] EXCEPT !.watchedAt = None]) ELSE @,
             !.failed = kind,
             !.pc = "settled"]

\* A resolution without its own catch: the rejection reaches Promise.all, which
\* rejects at once, and the batch's catch ends the batch.
FindFailRejectsBatch(i, e) ==
  /\ batchPc = "resolving"
  /\ items[i].pc = "finding"
  /\ items' = [items EXCEPT ![i].failed = "search", ![i].pc = "settled"]
  /\ batch' = BatchCatch(batch, e)
  /\ batchPc' = "done"
  /\ UNCHANGED <<storage, traktCache>>

\* Lines 82, 89-93: TraktSearch.find rejects with e.
FindFail(i, e) ==
  /\ batchPc = "resolving"
  /\ items[i].pc = "finding"
  /\ items' = [items EXCEPT ![i] = ItemCatch(@, "search")]
  /\ batch' = [batch EXCEPT !.canceled = @ \/ e.canceled]
  /\ UNCHANGED <<storage, traktCache, batchPc>>

\* Lines 86-87: TraktSync.loadHistory resolves, the entry is saved in the mapping.
HistoryOk(i) ==
  /\ batchPc = "resolving"
  /\ items[i].pc = "loading"
  /\ LET watched == [items[i].trakt[1] EXCEPT !.watchedAt = WatchedAtOf(i)]
     IN /\ items' = [items EXCEPT ![i].trakt = Some(watched), ![i].pc = "settled"]
        /\ traktCache' = [traktCache EXCEPT ![cacheIdOf[i]] =
                                              Some(TraktItemSave(watched))]
        /\ batch' = [batch EXCEPT !.wrote = @ \cup {i}]
  /\ UNCHANGED <<storage, batchPc>>

\* Lines 86, 89-93: TraktSync.loadHistory rejects with e, having set watchedAt
\* already (partial) or not.
HistoryFail(i, e, partial) ==
  /\ batchPc = "resolving"
  /\ items[i].pc = "loading"
  /\ LET reached == IF partial
                    THEN [items[i] EXCEPT !.trakt = Some([@[1] EXCEPT !.watchedAt = WatchedAtOf(i)])]
                    ELSE items[i]
     IN items' = [items EXCEPT ![i] = ItemCatch(reached, "history")]
  /\ batch' = [batch EXCEPT !.canceled = @ \/ e.canceled]
  /\ UNCHANGED <<storage, traktCache, batchPc>>

\* A batch that goes on as soon as one promise has settled (Promise.race).
AnySettled == \E i \in ItemIds : items[i].pc = "settled"

\* Line 59: every promise of the batch has settled.
AllSettled == \A i \in ItemIds : items[i].pc \in {"settled", "skipped"}

\* Lines 59-60: BrowserStorage.set({ traktCache }) resolves.
Persist ==
  /\ batchPc = "resolving"
  /\ AllSettled
  /\ storage' = [storage EXCEPT !.traktCache = traktCache]
  /\ batch' = [batch EXCEPT !.setCalls = @ + 1]
  /\ batchPc' = "done"
  /\ UNCHANGED <<items, traktCache>>

\* Lines 59-68: BrowserStorage.set rejects with e.
PersistFail(e) ==
  /\ batchPc = "resolving"
  /\ AllSettled
  /\ batch' = BatchCatch([batch EXCEPT !.setCalls = @ + 1], e)
  /\ batchPc' = "done"
  /\ UNCHANGED <<items, storage, traktCache>>

TraktNext ==
  \/ ReturnEmpty
  \/ \E e \in FetchErrors : GetFail(e)
  \/ StartBatch
  \/ \E i \in ItemIds : FindOk(i)
  \/ \E i \in ItemIds, e \in FetchErrors : FindFail(i, e)
  \/ \E i \in ItemIds : HistoryOk(i)
  \/ \E i \in ItemIds, e \in FetchErrors, partial \in BOOLEAN : HistoryFail(i, e, partial)
  \/ Persist
  \/ \E e \in FetchErrors : PersistFail(e)

(* --------------------- OptionsPage.onOptionChange ----------------------- *)

VARIABLES
  content,                 \* the component's state: [isLoading, options]; options is None
                           \*   ({}) or Some(map from option id to [id, value])
  storedOptions,           \* the options in the browser storage: option id -> value
  sets,                    \* BrowserStorage.set calls not yet settled, oldest first:
                           \*   [optionsToSave, options, asked]
  asked,                   \* the value every option has after all changes made so far
  written,                 \* None, or Some(asked) of the change whose options were
                           \*   written to the storage last
  saveFailed               \* a BrowserStorage.set of the page has rejected

optionsVars == <<content, storedOptions, sets, asked, written, saveFailed>>

OptionIds == {"a", "b"}

OptionValues == [OptionIds -> BOOLEAN]

\* BrowserStorage.getOptions: the option objects, with the stored values.
getOptions(stored) == [id \in OptionIds |-> [id |-> id, value |-> stored[id]]]

\* Lines 11-14: the state of a page that has just been mounted.
OptionsInit ==
  /\ content = [isLoading |-> TRUE, options |-> None]
  /\ storedOptions \in OptionValues
  /\ sets = <<>>
  /\ asked = storedOptions
  /\ written = None
  /\ saveFailed = FALSE

\* No options page is mounted.
OptionsParked ==
  /\ OptionsInit
  /\ storedOptions = [id \in OptionIds |-> FALSE]

\* Lines 19-24: resetOptions, run on mount (lines 90-92) and on OPTIONS_CLEAR
\* (line 28).
resetOptions ==
  /\ content' = [isLoading |-> FALSE, options |-> Some(getOptions(storedOptions))]
  /\ UNCHANGED <<storedOptions, sets, asked, written, saveFailed>>

\* Lines 42-48: options, built from the content of the render the handler
\* belongs to.
OptionsAfterChange(current, id, checked) ==
  [current EXCEPT ![id] = [@ EXCEPT !.value = checked]]

\* Lines 49-51: optionsToSave.
OptionsToSave(options) == [id \in OptionIds |-> options[id].value]

\* Lines 40-66: onOptionChange up to the call of BrowserStorage.set. The list
\* that dispatches OPTIONS_CHANGE is rendered once the page has loaded (line 94)
\* and shows content.options (line 100), so a change toggles the value shown.
onOptionChange(id, checked) ==
  /\ ~content.isLoading
  /\ checked # content.options[1][id].value
  /\ Len(sets) < MaxPending
  /\ asked' = [asked EXCEPT ![id] = checked]
  /\ LET options == OptionsAfterChange(content.options[1], id, checked)
     IN sets' = Append(sets, [optionsToSave |-> OptionsToSave(options),
                              options |-> options,
                              asked |-> asked'])
  /\ UNCHANGED <<content, storedOptions, written, saveFailed>>

\* Lines 66-76: the oldest BrowserStorage.set resolves: the storage holds
\* optionsToSave, and the page takes options as its content.
SetResolved ==
  /\ sets # <<>>
  /\ storedOptions' = Head(sets).optionsToSave
  /\ content' = [isLoading |-> FALSE, options |-> Some(Head(sets).options)]
  /\ written' = Some(Head(sets).asked)
  /\ sets' = Tail(sets)
  /\ UNCHANGED <<asked, saveFailed>>

\* Lines 77-83: the oldest BrowserStorage.set rejects; the error is reported and
\* neither the storage nor the content changes.
SetRejected ==
  /\ sets # <<>>
  /\ saveFailed' = TRUE
  /\ sets' = Tail(sets)
  /\ UNCHANGED <<content, storedOptions, asked, written>>

OptionsNext ==
  \/ resetOptions
  \/ \E id \in OptionIds, checked \in BOOLEAN : onOptionChange(id, checked)
  \/ SetResolved
  \/ SetRejected

\* Lines 114-154: the steps of a started call, each the continuation of an await
\* or of the loop.
RunStep ==
  \/ SourceLeftover
  \/ \E k \in 0..MaxPage, end \in BOOLEAN : FetchPage(k, end)
  \/ DefaultLoadHistoryItems
  \/ \E e \in FetchErrors : FetchFail(e)
  \/ SourceNothing
  \/ FilterPage
  \/ ConvertAndStore
  \/ \E e \in FetchErrors : ConvertFail(e)
  \/ Catch

(* --------------------------- specifications ---------------------------- *)

vars == <<engineVars, cacheVars, traktVars, optionsVars>>

Init == EngineInit /\ CacheParked /\ TraktParked /\ OptionsParked

Next == EngineNext /\ UNCHANGED <<cacheVars, traktVars, optionsVars>>

\* loadHistory on one adapter instance.
Spec == Init /\ [][Next]_vars

EngineParked ==
  /\ EngineInit
  /\ cursor = 0

NextLive ==
  /\ \/ \E n \in TargetCounts, w \in Watermarks : Call(n, w[1], w[2])
     \/ RunStep
  /\ UNCHANGED <<cacheVars, traktVars, optionsVars>>

\* loadHistory on an adapter that may keep the default loadHistoryItems, every
\* adapter call returning and every continuation of a started call being run.
SpecLive ==
  Init /\ [][NextLive]_vars /\ WF_vars(RunStep /\ UNCHANGED <<cacheVars, traktVars, optionsVars>>)

InitCache == CacheInit /\ EngineParked /\ TraktParked /\ OptionsParked

NextCache == CacheNext /\ UNCHANGED <<engineVars, traktVars, optionsVars>>

\* The cache-key functions on bounded inputs.
SpecCache == InitCache /\ [][NextCache]_vars

InitTrakt == TraktInit /\ EngineParked /\ CacheParked /\ OptionsParked

NextTrakt == TraktNext /\ UNCHANGED <<engineVars, cacheVars, optionsVars>>

\* One loadTraktHistory batch.
SpecTrakt == InitTrakt /\ [][NextTrakt]_vars

InitOptions == OptionsInit /\ EngineParked /\ CacheParked /\ TraktParked

NextOptions == OptionsNext /\ UNCHANGED <<engineVars, cacheVars, traktVars>>

\* The options page from its mounting on.
SpecOptions == InitOptions /\ [][NextOptions]_vars

(* ------------------------ properties of loadHistory -------------------- *)

\* C1 - Watermark monotonicity. In a call with lastSync > 0 and a non-empty
\* lastSyncId every entry in the accepted list (historyItems, what
\* convertHistoryItems is given) passes isNewHistoryItem; and when the scan of a
\* page meets a first rejected entry, that entry and all later entries of the
\* page, in order, become the leftover buffer, hasReachedLastSyncDate becomes
\* true, the loop ends, and the rest of the call leaves the buffer alone (it is
\* what the next call finds).
C1_WatermarkMonotonicity ==
  [][ /\ HasWatermark(lastSync', lastSyncId') =>
           \A i \in 1..Len(historyItems') :
              isNewHistoryItem(historyItems'[i], lastSync', lastSyncId')
      /\ ( /\ pc = "filter"
           /\ HasWatermark(lastSync, lastSyncId)
           /\ \E i \in 1..Len(responseItems) :
                 ~isNewHistoryItem(responseItems[i], lastSync, lastSyncId) )
         => \E i \in 1..Len(responseItems) :
              /\ ~isNewHistoryItem(responseItems[i], lastSync, lastSyncId)
              /\ \A j \in 1..(i - 1) :
                    isNewHistoryItem(responseItems[j], lastSync, lastSyncId)
              /\ historyItems' = historyItems \o SubSeq(responseItems, 1, i - 1)
              /\ leftoverHistoryItems' = SubSeq(responseItems, i, Len(responseItems))
              /\ hasReachedLastSyncDate'
              /\ pc' = "convert"
      /\ pc \in {"convert", "catch"} => leftoverHistoryItems' = leftoverHistoryItems
    ]_vars

\* C1 witness: a call with a watermark accepted entries from a page, rejected
\* one, and buffered it together with a later entry of the same page.
C1_Witness ==
  /\ pc = "convert"
  /\ HasWatermark(lastSync, lastSyncId)
  /\ Len(historyItems) > 0
  /\ Len(leftoverHistoryItems) >= 2
  /\ hasReachedLastSyncDate
  /\ historyItems \o leftoverHistoryItems = responseItems

\* C2 - Idempotent resume. A page fetch (loadHistoryItems, counted by
\* fetchCount) is issued only when the leftover buffer is empty; when leftovers
\* are pending as a page is sourced, the page is the leftovers, the buffer is
\* emptied and the fetch count stays as it was.
C2_IdempotentResume ==
  [][ /\ fetchCount' # fetchCount => Len(leftoverHistoryItems) = 0
      /\ (pc = "loop" /\ Len(leftoverHistoryItems) > 0)
         => /\ responseItems' = leftoverHistoryItems
            /\ leftoverHistoryItems' = <<>>
            /\ fetchCount' = fetchCount
            /\ pc' = "filter"
    ]_vars

\* C2 witness: a later call sourced its page from the leftovers of an earlier
\* one, on an adapter that had fetched before, without fetching.
C2_Witness ==
  /\ pc = "filter"
  /\ Len(run.leftover) > 0
  /\ responseItems = run.leftover
  /\ leftoverHistoryItems = <<>>
  /\ run.fetched = <<>>
  /\ fetchCount > 0

\* C3 - Target-count termination. With a requested count targetCount >= 1 (the
\* counts callers pass) a page is fetched only while fewer than targetCount
\* entries have been accepted; and in a call without a watermark the
\* hasReachedEnd written to the store is true only if the adapter's end flag is
\* set or the watermark was reached (the store's hasReachedLastSyncDate, which
\* such a call cannot set, was already true), whatever the accepted count.
C3_TargetCountTermination ==
  [][ /\ fetchCount' # fetchCount => Len(historyItems) < run.targetCount
      /\ run'.setData # run.setData =>
           /\ store'.hasReachedEnd =>
                (hasReachedHistoryEnd \/ store'.hasReachedLastSyncDate)
           /\ ~HasWatermark(lastSync, lastSyncId) =>
                (store'.hasReachedEnd => (hasReachedHistoryEnd \/ run.store.hasReachedLastSyncDate))
    ]_vars

\* C3 witness: a call without a watermark met its target of 2 over more than one
\* page with entries still unserved, and wrote hasReachedEnd = false.
C3_Witness ==
  /\ pc = "resolved"
  /\ ~HasWatermark(lastSync, lastSyncId)
  /\ run.targetCount = 2
  /\ Len(historyItems) >= run.targetCount
  /\ Len(run.fetched) >= 2
  /\ cursor > 0
  /\ run.setData = 1
  /\ ~store.hasReachedEnd

\* C4 - Cancellation purity. A call that rejects with a canceled-kind error
\* (raised by the page fetch or by the conversion, at any iteration) has not
\* written the sync store (items and both flags are as before the call) and has
\* neither reported an error nor dispatched SERVICE_HISTORY_LOAD_ERROR.
C4_CancellationPurity ==
  (pc = "rejected" /\ err.canceled)
    => /\ run.setData = 0
       /\ store = run.store
       /\ run.reported = 0
       /\ run.events = <<>>

\* C4 witness: a fetch was canceled at a later iteration of a call that started
\* from a store holding items.
C4_Witness ==
  /\ pc = "rejected"
  /\ err.canceled
  /\ Len(run.fetched) >= 1
  /\ Len(historyItems) > 0
  /\ Len(run.store.items) > 0

\* C5 - Non-canceled failure. A call whose fetch or conversion rejects with an
\* error that is not canceled-kind reports it once, dispatches exactly one
\* SERVICE_HISTORY_LOAD_ERROR carrying that error, writes nothing to the sync
\* store, and rejects to its caller with that same error.
C5_FailureSemantics ==
  (pc = "rejected" /\ ~err.canceled)
    => /\ run.reported = 1
       /\ run.events = <<[type |-> "SERVICE_HISTORY_LOAD_ERROR", error |-> err]>>
       /\ run.setData = 0
       /\ store = run.store
       /\ run.thrown = err

\* C5 witness: the conversion of accepted entries failed with a network error in
\* a call that started from a store holding items.
C5_Witness ==
  /\ pc = "rejected"
  /\ err.name = "network"
  /\ Len(historyItems) > 0
  /\ hasReachedEnd
  /\ Len(run.store.items) > 0

\* The end-to-end scenario: a clear store and an empty buffer, a call with
\* targetCount 10 and the watermark (t3, id(e3)), and a feed whose first page is
\* [e5, e4, e3] (the second, [e2, e1], is what the service still holds).
Scenario ==
  /\ run.targetCount = 10
  /\ lastSync = 3
  /\ lastSyncId = <<3>>
  /\ run.store = ClearStore
  /\ run.leftover = <<>>
  /\ Len(run.fetched) >= 1
  /\ run.fetched[1] = <<5, 4, 3>>
  /\ err = NoError

\* C8 - End-to-end scenario. In the scenario the call fetches no second page
\* (entries e2, e1 stay unserved) and sources no page after the first (the loop
\* body runs once), accepts exactly e5, e4 and rejects e3, and on
\* completion has written hasReachedLastSyncDate = true, hasReachedEnd = true and
\* items = the conversion of [e5, e4].
C8_EndToEnd ==
  Scenario =>
    /\ run.fetched = << <<5, 4, 3>> >>
    /\ cursor = 2
    /\ pc \in {"filter", "convert", "resolved"}
    /\ pc = "filter" => (responseItems = <<5, 4, 3>> /\ historyItems = <<>>)
    /\ pc \in {"convert", "resolved"} =>
         /\ historyItems = <<5, 4>>
         /\ leftoverHistoryItems = <<3>>
    /\ pc = "resolved" =>
         /\ run.setData = 1
         /\ store = [items |-> << [id |-> <<5>>, entry |-> 5], [id |-> <<4>>, entry |-> 4] >>,
                      hasReachedEnd |-> TRUE,
                      hasReachedLastSyncDate |-> TRUE]

\* C8 witness: the scenario ran to completion.
C8_Witness == Scenario /\ pc = "resolved"

(* -------------------- properties of the cache-key functions ------------- *)

\* The longest prefix of s made of non-word characters, dropped.
RECURSIVE DropNonWord(_)
DropNonWord(s) ==
  IF s = <<>> \/ IsWordChar(Head(s)) THEN s ELSE DropNonWord(Tail(s))

\* The slug rule read run by run: a word character is lowercased; a maximal run
\* of non-word characters is replaced by one '-'.
RECURSIVE SlugByRuns(_)
SlugByRuns(s) ==
  IF s = <<>> THEN <<>>
  ELSE IF IsWordChar(Head(s)) THEN <<LowerChar(Head(s))>> \o SlugByRuns(Tail(s))
  ELSE <<"-">> \o SlugByRuns(DropNonWord(Tail(s)))

\* C9 as stated - slug("The Wire!!") = "the-wire" and slug("A  B_C") = "a-b-c".
C9_AsStated ==
  cacheStr # Pending =>
    /\ title = TheWire => cacheStr = <<"t", "h", "e", "-", "w", "i", "r", "e">>
    /\ title = ABC => cacheStr = <<"a", "-", "b", "-", "c">>

\* C9 - Slug normalization, amended. getTraktCacheStr lowercases its argument and
\* replaces every run of non-word characters with a single '-', where the word
\* characters are [A-Za-z0-9_]: the underscore is kept, and a run at the start or
\* at the end leaves a '-' there. So slug("The Wire!!") = "the-wire-" and
\* slug("A  B_C") = "a-b_c".
C9_SlugNormalization ==
  cacheStr # Pending =>
    /\ cacheStr = SlugByRuns(title)
    /\ title = TheWire => cacheStr = <<"t", "h", "e", "-", "w", "i", "r", "e", "-">>
    /\ title = ABC => cacheStr = <<"a", "-", "b", "_", "c">>

\* C9 witness: the slug of "A  B_C" was computed.
C9_Witness == title = ABC /\ cacheStr # Pending /\ item = NoItem

\* The key the format prescribes, with slug read run by run and a year present
\* when the item carries one other than 0 (0 is the absent year).
ExpectedCacheId(it) ==
  IF it.type = "show"
  THEN <<"/", "s", "h", "o", "w", "s", "/">> \o SlugByRuns(it.title)
       \o <<"/", "s", "e", "a", "s", "o", "n", "s", "/">>
       \o NumberToString(IF it.season = None THEN 0 ELSE it.season[1])
       \o <<"/", "e", "p", "i", "s", "o", "d", "e", "s", "/">>
       \o (IF it.episode = None
           THEN SlugByRuns(IF it.episodeTitle = None THEN <<"0">> ELSE it.episodeTitle[1])
           ELSE NumberToString(it.episode[1]))
  ELSE <<"/", "m", "o", "v", "i", "e", "s", "/">> \o SlugByRuns(it.title)
       \o (IF it.year \in {None, Some(0)} THEN <<>> ELSE <<"-">> \o NumberToString(it.year[1]))

\* C10 - Cache-key derivation and determinism. getTraktCacheId returns
\* /shows/<slug(title)>/seasons/<season ?? 0>/episodes/<episode ?? slug(episodeTitle ?? "0")>
\* for a show, and /movies/<slug(title)> followed by -<year> exactly when the item
\* has a year (a year other than 0) for a movie; and an item with the same type,
\* title, year, season, episode and episodeTitle but another service id and
\* database id gets the same key.
C10_CacheKey ==
  cacheId # Pending =>
    /\ cacheId = ExpectedCacheId(item)
    /\ ( /\ other.serviceId # item.serviceId
         /\ other.databaseId # item.databaseId
         /\ \A f \in {"type", "title", "year", "season", "episode", "episodeTitle"} :
              other[f] = item[f] )
       => otherCacheId = cacheId

\* C10 witness: the key of a movie with a year was computed for two services.
C10_Witness ==
  /\ cacheId # Pending
  /\ item.type = "movie"
  /\ item.year = Some(1999)
  /\ other.serviceId # item.serviceId
  /\ otherCacheId = cacheId

(* ---------------------- properties of loadTraktHistory ------------------ *)

\* C6 - Correction precedence. For an item that came without a catalog entry:
\* when a correction exists for its database id the entry is resolved by
\* TraktSearch.find called with that correction, and carries the correction's
\* identity, whether or not the cache holds an entry under the item's key; the
\* cache entry is loaded exactly when there is no correction and the cache holds
\* an entry.
C6_CorrectionPrecedence ==
  \A i \in batch.noEntry :
    LET correction == storage.corrections[getDatabaseId(i)]
        cached == batch.read[cacheIdOf[i]]
    IN /\ correction # None =>
            /\ items[i].via = [by |-> "find", correction |-> correction]
            /\ items[i].trakt # None => items[i].trakt[1].id = correction[1].traktId
       /\ items[i].via.by = "cache" <=> (correction = None /\ cached # None)
       /\ items[i].via.by = "cache" => items[i].trakt[1].id = cached[1].id

\* C6 witness: an item with both a correction and a cache hit was resolved
\* through the correction.
C6_Witness ==
  \E i \in batch.noEntry :
    /\ storage.corrections[getDatabaseId(i)] # None
    /\ batch.read[cacheIdOf[i]] # None
    /\ items[i].pc = "settled"
    /\ items[i].trakt # None
    /\ items[i].trakt[1].id = Suggestion(getDatabaseId(i)).traktId
    /\ items[i].trakt[1].watchedAt # None

\* C7 - Fan-out isolation. Whatever the order in which the items' remote calls
\* return: an item whose own calls succeeded ends with a catalog entry (and its
\* watchedAt), an item whose search failed ends without one, a failure leaves
\* the siblings' pending calls able to return and the batch waiting for them,
\* and the batch ends only with every item settled and the cache write issued.
C7_FanOutIsolation ==
  /\ \A i \in batch.missing :
       /\ (items[i].pc = "settled" /\ items[i].failed = NoFailure)
            => (items[i].trakt # None /\ items[i].trakt[1].watchedAt # None)
       /\ items[i].failed = "search" => items[i].trakt = None
       /\ items[i].pc \in {"finding", "loading"} => batchPc = "resolving"
       /\ items[i].pc = "finding" => ENABLED FindOk(i)
       /\ items[i].pc = "loading" => ENABLED HistoryOk(i)
  /\ (batchPc = "resolving" /\ AllSettled) => ENABLED Persist
  /\ (batchPc = "done" /\ batch.missing # {}) => (AllSettled /\ batch.setCalls = 1)

\* C7 witness: in a batch of three missing items the search of item 2 failed,
\* items 1 and 3 resolved fully, and the cache was persisted with their entry.
C7_Witness ==
  /\ batchPc = "done"
  /\ {1, 2, 3} \subseteq batch.missing
  /\ items[2].failed = "search"
  /\ items[2].trakt = None
  /\ \A i \in {1, 3} : /\ items[i].failed = NoFailure
                       /\ items[i].trakt # None
                       /\ items[i].trakt[1].watchedAt # None
  /\ batch.setCalls = 1
  /\ storage.traktCache[cacheIdOf[1]] # None
  /\ storage.traktCache[cacheIdOf[1]] # batch.read[cacheIdOf[1]]

\* C11 as stated - Cancellation does not touch the persisted cache: in a batch
\* where a remote call of an item (the search or the watched-history fetch)
\* rejected with a canceled-kind error, BrowserStorage.set is not called and the
\* stored mapping is as it was read.
C11_CancellationLeavesCache ==
  batch.canceled => (batch.setCalls = 0 /\ storage.traktCache = batch.read)

\* The number of leading entries of a page that the watermark scan lets through:
\* all of them without a watermark.
PassingPrefix(resp, sync, syncId) ==
  IF HasWatermark(sync, syncId)
  THEN Cardinality({ i \in 1..Len(resp) :
                       \A j \in 1..i : isNewHistoryItem(resp[j], sync, syncId) })
  ELSE Len(resp)

\* C12 - End-flag invariant. Each pass of the loop sets hasReachedEnd to
\* (adapter.hasReachedHistoryEnd or hasReachedLastSyncDate), and every write of the
\* sync store carries that value: the written hasReachedEnd equals the adapter's
\* end flag or the written hasReachedLastSyncDate, so the latter implies the
\* former. A zero-length page sourced while the adapter's end flag is unset
\* changes neither flag: hasReachedEnd is then true only if the watermark had
\* been reached before.
C12_EndFlag ==
  [][ /\ pc = "filter" =>
           hasReachedEnd' = (hasReachedHistoryEnd \/ hasReachedLastSyncDate')
      /\ (pc = "filter" /\ responseItems = <<>> /\ ~hasReachedHistoryEnd) =>
           /\ hasReachedLastSyncDate' = hasReachedLastSyncDate
           /\ hasReachedEnd' = hasReachedLastSyncDate
      /\ run'.setData = run.setData + 1 =>
           /\ store'.hasReachedEnd = (hasReachedHistoryEnd \/ store'.hasReachedLastSyncDate)
           /\ store'.hasReachedLastSyncDate => store'.hasReachedEnd ]_vars

\* C12 witness: a run that met a zero-length page with the adapter's end flag
\* unset, went on, and wrote the store with hasReachedEnd false.
C12_Witness ==
  /\ pc = "resolved"
  /\ \E p \in 1..Len(run.fetched) : run.fetched[p] = <<>>
  /\ ~hasReachedHistoryEnd
  /\ ~store.hasReachedEnd
  /\ ~store.hasReachedLastSyncDate
  /\ Len(store.items) > 0

\* C13 - Over-fetch within a page is accepted, not truncated. The scan of a page
\* accepts every entry the watermark filter lets through, also when that is more
\* than is still asked for: the remaining count goes down by the number accepted
\* (below zero if need be) and only decides whether another page is sourced; what
\* is converted and stored is all that was accepted.
C13_OverFetchAccepted ==
  [][ /\ pc = "filter" =>
           LET n == PassingPrefix(responseItems, lastSync, lastSyncId)
           IN /\ historyItems' = historyItems \o SubSeq(responseItems, 1, n)
              /\ itemsToLoad' = itemsToLoad - n
              /\ (pc' = "loop") = (~hasReachedEnd' /\ itemsToLoad' > 0)
              /\ pc' \in {"loop", "convert"}
      /\ run'.setData = run.setData + 1 =>
           store'.items = convertHistoryItems(historyItems) ]_vars

\* C13 witness: a run asked for one entry accepted a page of three, the remaining
\* count went to -2, and all three were converted and stored.
C13_Witness ==
  /\ pc = "resolved"
  /\ run.targetCount = 1
  /\ itemsToLoad = -2
  /\ Len(run.fetched) = 1
  /\ Len(store.items) = 3
  /\ store.items = convertHistoryItems(run.fetched[1])

\* C14 as stated - Leftover buffering on a satisfied target: when a page holds
\* more passing entries than are still asked for, only the asked-for entries are
\* consumed and the rest of the page is kept in the leftover buffer.
C14_AsStated ==
  [][ (/\ pc = "filter"
       /\ PassingPrefix(responseItems, lastSync, lastSyncId) > itemsToLoad) =>
        /\ historyItems' = historyItems \o SubSeq(responseItems, 1, itemsToLoad)
        /\ leftoverHistoryItems' =
             SubSeq(responseItems, itemsToLoad + 1, Len(responseItems)) ]_vars

\* C14 - Leftover buffering at the watermark. When the requested count is met in
\* the middle of a page, the whole passing part of the page is consumed and the
\* count puts nothing into the leftover buffer; the buffer is filled only when
\* the watermark scan rejects an entry, with that entry and the rest of the page.
\* What is in the buffer is the page of the next pass or call, without a fetch.
C14_LeftoverAtWatermark ==
  [][ /\ pc = "filter" =>
           LET n == PassingPrefix(responseItems, lastSync, lastSyncId)
           IN /\ leftoverHistoryItems = <<>>
              /\ leftoverHistoryItems' = SubSeq(responseItems, n + 1, Len(responseItems))
              /\ n > itemsToLoad => Len(historyItems') = Len(historyItems) + n
      /\ (pc = "loop" /\ leftoverHistoryItems # <<>>) =>
           /\ pc' = "filter"
           /\ responseItems' = leftoverHistoryItems
           /\ fetchCount' = fetchCount ]_vars

\* C14 witness: under a watermark, a page with more passing entries than asked
\* for was consumed whole and the leftover buffer is empty.
C14_Witness ==
  /\ pc = "convert"
  /\ HasWatermark(lastSync, lastSyncId)
  /\ itemsToLoad < 0
  /\ leftoverHistoryItems = <<>>
  /\ Len(historyItems) > run.targetCount
  /\ cursor > 0

\* C15 - Per-item failure leaves a well-defined item. An item whose search or
\* watched-history fetch failed has, once settled, either no catalog entry or a
\* catalog entry without watchedAt (also when the fetch had set watchedAt before
\* it failed), and its resolution wrote no entry into the cache mapping.
C15_FailureLeavesItemDefined ==
  \A i \in ItemIds :
    items[i].failed # NoFailure =>
      /\ items[i].pc = "settled"
      /\ items[i].trakt # None => items[i].trakt[1].watchedAt = None
      /\ items[i].failed = "search" => items[i].trakt = None
      /\ i \notin batch.wrote
      /\ (\A j \in batch.wrote : cacheIdOf[j] # cacheIdOf[i])
           => traktCache[cacheIdOf[i]] = batch.read[cacheIdOf[i]]

\* C15 witness: the watched-history fetch of an item with a catalog entry failed,
\* no sibling shares a written key with it, and the batch ended.
C15_Witness ==
  /\ batchPc = "done"
  /\ \E i \in ItemIds :
       /\ items[i].failed = "history"
       /\ items[i].trakt # None
       /\ items[i].trakt[1].watchedAt = None
       /\ batch.wrote # {}
       /\ \A j \in batch.wrote : cacheIdOf[j] # cacheIdOf[i]

\* C16 - No lost cache update. Whatever the order in which the items settle,
\* BrowserStorage.set is called at most once and only when every item of the
\* batch has settled, a batch that read the storage ends with exactly one call,
\* and the mapping it hands over holds, under the key of every item whose
\* watched-history fetch succeeded, the saved entry of such an item, and under
\* every other key what was read; the storage holds either what was read or,
\* once the call went through, that mapping.
C16_NoLostCacheUpdate ==
  /\ batch.setCalls <= 1
  /\ batch.setCalls = 1 =>
       /\ batchPc = "done"
       /\ \A i \in ItemIds : items[i].pc \in {"settled", "skipped"}
  /\ (batchPc = "done" /\ batch.missing # {}) => batch.setCalls = 1
  /\ \A i \in ItemIds :
       items[i].pc = "settled" /\ items[i].failed = NoFailure /\ i \in batch.wrote
         => \E j \in batch.wrote :
              /\ cacheIdOf[j] = cacheIdOf[i]
              /\ traktCache[cacheIdOf[i]] = Some(TraktItemSave(items[j].trakt[1]))
  /\ batchPc # "idle" /\ batch.missing # {} =>
       /\ \A k \in CacheKeys :
            (\A j \in batch.wrote : cacheIdOf[j] # k) => traktCache[k] = batch.read[k]
       /\ storage.traktCache =
            IF batch.setCalls = 1 /\ storage.traktCache # batch.read
            THEN traktCache ELSE batch.read

\* C16 witness: two items sharing a key and an item of another key all fetched
\* their watched history, and the one write stored an entry under both keys.
C16_Witness ==
  /\ batchPc = "done"
  /\ batch.setCalls = 1
  /\ {1, 2, 3} \subseteq batch.wrote
  /\ \A i \in {1, 2, 3} : storage.traktCache[cacheIdOf[i]] # None
  /\ storage.traktCache # batch.read

\* Concatenation of the pages of a run, in the order they were fetched.
RECURSIVE Concat(_)
Concat(pages) == IF pages = <<>> THEN <<>> ELSE Head(pages) \o Concat(Tail(pages))

\* C18 - Conservation of raw entries. When a run has left its loop without an
\* error, the accepted entries (those handed to conversion) followed by the
\* leftover buffer are, in order, the leftover buffer at the start of the run
\* followed by the pages fetched during the run.
C18_Conservation ==
  pc \in {"convert", "resolved"} =>
    historyItems \o leftoverHistoryItems = run.leftover \o Concat(run.fetched)

\* C18 witness: a run that started with a buffer, fetched a page and ended with
\* entries both accepted and buffered.
C18_Witness ==
  /\ pc = "resolved"
  /\ Len(run.leftover) > 0
  /\ Len(run.fetched) > 0
  /\ Len(Concat(run.fetched)) >= 2
  /\ Len(leftoverHistoryItems) > 0
  /\ Len(historyItems) >= 2

\* C19 as stated - A failed run loses no buffered entries: when a run has
\* rejected, the leftover buffer still holds what it held when the run started,
\* so every entry buffered at the start is offered again by the next call.
C19_FailedRunKeepsLeftover ==
  pc = "rejected" =>
    \A i \in 1..Len(run.leftover) :
      \E j \in 1..Len(leftoverHistoryItems) : leftoverHistoryItems[j] = run.leftover[i]

\* C17 as stated - Termination of loadHistory. Every started call (its requested
\* count is positive) eventually completes: it writes the sync store and
\* resolves, or rejects.
C17_Termination == (pc = "loop") ~> (pc \in {"resolved", "rejected"})

\* C20 as stated - No lost option change. The options most recently written to
\* the storage carry the value of every change made up to the change that wrote
\* them, whatever the timing of the OPTIONS_CHANGE events (no save having
\* failed).
C20_NoLostOptionChange ==
  (written # None /\ ~saveFailed) => storedOptions = written[1]

====
